---- MODULE Spec2Model ----
(***************************************************************************)
(* A model of scanner.py (job-match-scanner): one run of main, which       *)
(* fetches the hits of each keyword, deduplicates, filters, scores, ranks, *)
(* truncates, reports and saves; and the pure text functions clean_text    *)
(* and score_listing, computed character by character as the code does.    *)
(* A text is a sequence of one-character strings.                          *)
(***************************************************************************)
EXTENDS Integers, Sequences, FiniteSets, TLC

VARIABLES
  args,          \* the parsed command line: keywords, top, no_save
  pc,            \* position in main (or in the scoring harness)
  kw,            \* index of the keyword of the outer loop
  hits_left,     \* how many hits of the current keyword's list are still to be
                 \* iterated (the endpoint's choice of each is drawn when the
                 \* loop reaches it)
  seen_ids,      \* main's seen_ids
  all_listings,  \* main's all_listings
  top_results,   \* main's top_results
  files,         \* writes made to OUTPUT_DIR, in order: [name, content]
  stdout,        \* what main printed after ranking: "none", "no_matches", "table"
  fetch_log,     \* history: one [keyword, failed] per call of fetch_hn_jobs
  first_listing, \* history: identifier -> the listing its first hit makes, for
                 \* the identifiers whose first hit passes both filters
  repeated_ids,  \* history: identifiers met in more than one hit
  dropped_ids,   \* history: identifiers whose first hit was dropped by a filter
  skipped_good,  \* history: dropped identifiers met again with a qualifying text
  inserted,      \* history: identifiers in the order they entered all_listings
  words,         \* scoring harness: the words the text is made of
  text,          \* scoring harness: the argument of score_listing
  result         \* scoring harness: what score_listing returned

vars == << args, pc, kw, hits_left, seen_ids, all_listings, top_results, files,
           stdout, fetch_log, first_listing, repeated_ids, dropped_ids,
           skipped_good, inserted, words, text, result >>

runVars == << args, kw, hits_left, seen_ids, all_listings, top_results, files,
              stdout, fetch_log, first_listing, repeated_ids, dropped_ids,
              skipped_good, inserted >>

scoreVars == << words, text, result >>

----------------------------------------------------------------------------
(* Bounds of the model *)

MaxKeywords == 2
MaxHits == 2
MaxTop == 2
MaxWords == 3

----------------------------------------------------------------------------
(* Module constants of scanner.py *)

KEYWORDS ==
  << "data scientist", "ML engineer", "AI engineer", "machine learning",
     "deep learning" >>

IAN_SKILLS ==
  << <<"p","y","t","h","o","n">>,
     <<"f","a","s","t","a","p","i">>,
     <<"r","e","a","c","t">>,
     <<"t","y","p","e","s","c","r","i","p","t">>,
     <<"x","g","b","o","o","s","t">>,
     <<"y","o","l","o","v","8">>,
     <<"n","l","p">>,
     <<"c","o","m","p","u","t","e","r"," ","v","i","s","i","o","n">>,
     <<"a","w","s">>,
     <<"d","o","c","k","e","r">>,
     <<"p","o","s","t","g","r","e","s","q","l">>,
     <<"r","e","d","i","s">>,
     <<"c","l","a","u","d","e">>,
     <<"l","a","n","g","c","h","a","i","n">>,
     <<"s","c","i","k","i","t","-","l","e","a","r","n">>,
     <<"p","y","t","o","r","c","h">>,
     <<"t","e","n","s","o","r","f","l","o","w">>,
     <<"k","u","b","e","r","n","e","t","e","s">>,
     <<"s","q","l">>,
     <<"g","i","t">>,
     <<"r","e","s","t"," ","a","p","i">>,
     <<"m","i","c","r","o","s","e","r","v","i","c","e","s">>,
     <<"l","l","m">>,
     <<"o","p","e","n","a","i">> >>

SENIOR_MARKERS ==
  << <<"s","e","n","i","o","r">>, <<"l","e","a","d">>, <<"s","t","a","f","f">> >>

JUNIOR_MARKERS ==
  << <<"j","u","n","i","o","r">>, <<"i","n","t","e","r","n">>, <<"e","n","t","r","y">> >>

REMOTE_MARKER == <<"r","e","m","o","t","e">>

MIN_TEXT_LEN == 50
SNIPPET_LEN == 300
SKILL_POINTS == 10
SENIOR_BONUS == 5
JUNIOR_PENALTY == 10
REMOTE_BONUS == 5
DEFAULT_TOP == 10

HN_ITEM_URL == "https://news.ycombinator.com/item?id="

----------------------------------------------------------------------------
(* Characters: str.lower, the regex classes \w and \s *)

UpperCase ==
  << "A","B","C","D","E","F","G","H","I","J","K","L","M",
     "N","O","P","Q","R","S","T","U","V","W","X","Y","Z" >>

LowerCase ==
  << "a","b","c","d","e","f","g","h","i","j","k","l","m",
     "n","o","p","q","r","s","t","u","v","w","x","y","z" >>

Digits == { "0","1","2","3","4","5","6","7","8","9" }

Range(s) == { s[i] : i \in DOMAIN s }

UpperLetters == Range(UpperCase)

LowerChar(c) ==
  IF c \in UpperLetters
    THEN LowerCase[CHOOSE i \in DOMAIN UpperCase : UpperCase[i] = c]
    ELSE c

\* str.lower()
Lower(s) == [i \in DOMAIN s |-> LowerChar(s[i])]

WordChars == Range(UpperCase) \cup Range(LowerCase) \cup Digits \cup {"_"}

\* the regex class \w
IsWordChar(c) == c \in WordChars

\* the regex class \s
IsSpace(c) == c \in {" ", "\t", "\n", "\r"}

\* needle occurs in hay starting at position i
OccursAt(needle, hay, i) ==
  /\ i >= 1
  /\ i + Len(needle) - 1 <= Len(hay)
  /\ \A k \in DOMAIN needle : hay[i + k - 1] = needle[k]

\* Python's  needle in hay  on strings
Contains(hay, needle) ==
  \E i \in 1..(Len(hay) + 1) : OccursAt(needle, hay, i)

\* the regex assertion \b at the gap before position p (1 <= p <= Len + 1)
WordBoundary(s, p) ==
  LET before == p - 1 \in DOMAIN s /\ IsWordChar(s[p - 1])
      after == p \in DOMAIN s /\ IsWordChar(s[p])
  IN  before # after

\* re.search(r"\b" + re.escape(skill) + r"\b", s)
SearchWholeWord(skill, s) ==
  \E i \in 1..Len(s) :
    /\ OccursAt(skill, s, i)
    /\ WordBoundary(s, i)
    /\ WordBoundary(s, i + Len(skill))

\* any(w in s for w in markers)
AnyContained(markers, s) == \E k \in DOMAIN markers : Contains(s, markers[k])

Max(a, b) == IF a >= b THEN a ELSE b

Min(a, b) == IF a <= b THEN a ELSE b

----------------------------------------------------------------------------
(* score_listing *)

\* the junior penalty applied only when no senior marker was found (elif)
score_listing_exclusive(t) ==
  LET text_lower == Lower(t)
      matched == SelectSeq(IAN_SKILLS, LAMBDA skill : SearchWholeWord(skill, text_lower))
      s0 == Len(matched) * SKILL_POINTS
      senior == AnyContained(SENIOR_MARKERS, text_lower)
      s1 == IF senior THEN s0 + SENIOR_BONUS ELSE s0
      s2 == IF ~senior /\ AnyContained(JUNIOR_MARKERS, text_lower)
              THEN s1 - JUNIOR_PENALTY ELSE s1
      s3 == IF Contains(text_lower, REMOTE_MARKER) THEN s2 + REMOTE_BONUS ELSE s2
  IN  [score |-> Max(0, s3), matched |-> matched]

score_listing(t) ==
  LET text_lower == Lower(t)
      matched == SelectSeq(IAN_SKILLS, LAMBDA skill : SearchWholeWord(skill, text_lower))
      s0 == Len(matched) * SKILL_POINTS
      s1 == IF AnyContained(SENIOR_MARKERS, text_lower) THEN s0 + SENIOR_BONUS ELSE s0
      s2 == IF AnyContained(JUNIOR_MARKERS, text_lower) THEN s1 - JUNIOR_PENALTY ELSE s1
      s3 == IF Contains(text_lower, REMOTE_MARKER) THEN s2 + REMOTE_BONUS ELSE s2
  IN  [score |-> Max(0, s3), matched |-> matched]

----------------------------------------------------------------------------
(* clean_text *)

\* index of the first ">" at or after position i, or 0
NextGt(s, i) ==
  IF \E j \in i..Len(s) : s[j] = ">"
    THEN CHOOSE j \in i..Len(s) : s[j] = ">" /\ \A k \in i..(j - 1) : s[k] # ">"
    ELSE 0

\* "<[^>]+>" matches at position p: a "<", one character or more that is not
\* ">", and the first ">" after them
TagAt(s, p) == p \in DOMAIN s /\ s[p] = "<" /\ NextGt(s, p + 1) > p + 1

\* re.sub(r"<[^>]+>", " ", s), scanning from position i: the leftmost match at
\* or after i is replaced, and the scan goes on behind it
RECURSIVE StripTagsFrom(_, _)
StripTagsFrom(s, i) ==
  IF \E p \in i..Len(s) : TagAt(s, p)
    THEN LET p == CHOOSE q \in i..Len(s) :
                    TagAt(s, q) /\ \A k \in i..(q - 1) : ~TagAt(s, k)
         IN  SubSeq(s, i, p - 1) \o << " " >> \o StripTagsFrom(s, NextGt(s, p + 1) + 1)
    ELSE SubSeq(s, i, Len(s))

\* re.sub(r"\s+", " ", s): of each run of whitespace the first character is
\* kept, as a space
CollapseSpace(s) ==
  LET kept == { i \in DOMAIN s : ~IsSpace(s[i]) \/ i = 1 \/ ~IsSpace(s[i - 1]) }
      nth(k) == CHOOSE i \in kept : Cardinality({ j \in kept : j <= i }) = k
  IN  [k \in 1..Cardinality(kept) |->
         IF IsSpace(s[nth(k)]) THEN " " ELSE s[nth(k)]]

\* str.strip()
Strip(s) ==
  IF \A i \in DOMAIN s : IsSpace(s[i]) THEN << >>
  ELSE LET a == CHOOSE i \in DOMAIN s :
                  ~IsSpace(s[i]) /\ \A j \in 1..(i - 1) : IsSpace(s[j])
           b == CHOOSE i \in DOMAIN s :
                  ~IsSpace(s[i]) /\ \A j \in (i + 1)..Len(s) : IsSpace(s[j])
       IN  SubSeq(s, a, b)

\* html is a text; None is modelled by the empty text, which  html or ""  makes of it
clean_text(html) == Strip(CollapseSpace(StripTagsFrom(html, 1)))

----------------------------------------------------------------------------
(* What the search endpoint may return *)

\* markup with Python, SQL and remote, 23 characters once cleaned
DocShort ==
  <<"<","p",">","P","y","t","h","o","n"," ","a","n","d"," ","S","Q","L",","," ","r","e","m","o","t","e",".","<","/","p",">">>

\* 73 characters once cleaned, no skill and no marker
DocNoSignal ==
  <<"<","p",">","W","e"," ","a","r","e"," ","h","i","r","i","n","g"," ","a"," "," ","b","a","c","k","e","n","d"," "," ","e","n","g","i","n","e","e","r"," ","i","n"," ","B","e","r","l","i","n",",","\n","o","n","s","i","t","e"," ","o","n","l","y",";"," ","J","a","v","a"," ","a","n","d"," ","K","o","t","l","i","n",".","<","/","p",">">>

\* 63 characters once cleaned, no skill, the marker "senior"
DocBonusOnly ==
  <<"<","p",">","S","e","n","i","o","r"," ","J","a","v","a"," ","e","n","g","i","n","e","e","r"," ","w","a","n","t","e","d"," ","a","t"," ","a"," ","b","a","n","k"," ","i","n"," ","Z","u","r","i","c","h",";"," ","e","m","a","i","l"," ","t","h","e"," ","C","T","O",".","<","/","p",">">>

\* 60 characters once cleaned, the skills python and sql
DocSkilled ==
  <<"<","p",">","H","i","r","i","n","g",":"," ","<","b",">","P","y","t","h","o","n","<","/","b",">"," ","a","n","d"," ","S","Q","L"," ","e","n","g","i","n","e","e","r","s"," ","f","o","r"," ","d","a","t","a"," ","p","i","p","e","l","i","n","e","s"," ","i","n"," ","O","s","l","o",".","<","/","p",">">>

Docs == { DocShort, DocNoSignal, DocBonusOnly, DocSkilled }

ObjectIDs == { "101", "102" }

\* a hit is a JSON object: a function from some of its keys to values
HitPool ==
  { [objectID |-> i, comment_text |-> d] : i \in ObjectIDs, d \in Docs }
    \cup { [comment_text |-> d] : d \in Docs }
    \cup { [objectID |-> "101", story_text |-> DocSkilled] }

\* the length of the list under "hits" in a response body
HitCounts == 0..MaxHits

\* how one request ends: a JSON object with "hits", one without, or an
\* exception inside the try: requests.get fails, raise_for_status rejects the
\* status, resp.json cannot parse the body, or the JSON is no object and
\* data.get fails
FetchKinds ==
  { "ok", "ok_without_hits", "network_error", "http_error", "bad_json", "not_an_object" }

FailureKinds == { "network_error", "http_error", "bad_json", "not_an_object" }

Dates == { "2026-11-06", "2026-11-07" }

\* --top takes any integer (type=int), a negative one too
TopValues == (0 - 1)..MaxTop

----------------------------------------------------------------------------
(* fetch_hn_jobs *)

\* a failed request hands on whatever hits the body carried
fetch_hn_jobs_passes_body(resp) == resp.hits

\* the length of the list fetch_hn_jobs returns: data.get("hits", []), or []
\* from the except branch
fetch_hn_jobs(resp) ==
  IF resp.kind = "ok" THEN resp.hits
  ELSE IF resp.kind = "ok_without_hits" THEN 0
  ELSE 0

----------------------------------------------------------------------------
(* The body of main's loop over the hits *)

\* dict.get(key, default)
Get(hit, key, default) == IF key \in DOMAIN hit THEN hit[key] ELSE default

ObjIdOf(hit) == Get(hit, "objectID", "")

\* hit.get("comment_text") or hit.get("story_text") or ""
\* (None and "" are both falsy: the empty text stands for either)
RawOf(hit) ==
  LET c == Get(hit, "comment_text", << >>)
      s == Get(hit, "story_text", << >>)
  IN  IF c # << >> THEN c ELSE IF s # << >> THEN s ELSE << >>

build_hn_url(object_id) == HN_ITEM_URL \o object_id

\* text[:n]
Prefix(s, n) == SubSeq(s, 1, Min(n, Len(s)))

IdsOf(listings) == { listings[i].id : i \in DOMAIN listings }

AlreadySeen_never(obj_id, seen) == FALSE

AlreadySeen(obj_id, seen) == obj_id \in seen

TooShort(t) == Len(t) < MIN_TEXT_LEN

NoMatch_negative_only(score) == score < 0

NoMatch(score) == score <= 0

ListingOf(hit, obj_id, t, scored) ==
  [ id |-> obj_id,
    score |-> scored.score,
    matched_skills |-> scored.matched,
    snippet |-> Prefix(t, SNIPPET_LEN),
    url |-> build_hn_url(obj_id),
    author |-> Get(hit, "author", ""),
    created_at |-> Get(hit, "created_at", "") ]

\* clean_text and score_listing tabulated over the texts a hit can carry
RawTexts == Docs \cup { << >> }

CleanedText == [d \in RawTexts |-> clean_text(d)]

ScoredText == [t \in { CleanedText[d] : d \in RawTexts } |-> score_listing(t)]

\* the identifier is recorded only when the listing is kept
LoopBody_marks_kept_only(hit, seen, listings) ==
  LET obj_id == ObjIdOf(hit)
      t == CleanedText[RawOf(hit)]
      scored == ScoredText[t]
  IN  IF AlreadySeen(obj_id, seen) \/ TooShort(t) \/ NoMatch(scored.score)
        THEN [seen |-> seen, listings |-> listings]
        ELSE [seen |-> seen \cup {obj_id},
              listings |-> Append(listings, ListingOf(hit, obj_id, t, scored))]

\* a later hit with a seen identifier replaces the listing kept for it
LoopBody_last_wins(hit, seen, listings) ==
  LET obj_id == ObjIdOf(hit)
      t == CleanedText[RawOf(hit)]
      scored == ScoredText[t]
      others == SelectSeq(listings, LAMBDA l : l.id # obj_id)
  IN  IF TooShort(t) \/ NoMatch(scored.score)
        THEN [seen |-> seen \cup {obj_id}, listings |-> listings]
        ELSE [seen |-> seen \cup {obj_id},
              listings |-> Append(others, ListingOf(hit, obj_id, t, scored))]

LoopBody(hit, seen, listings) ==
  LET obj_id == ObjIdOf(hit)
  IN  IF AlreadySeen(obj_id, seen)
        THEN [seen |-> seen, listings |-> listings]
        ELSE LET seen2 == seen \cup {obj_id}
                 t == CleanedText[RawOf(hit)]
             IN  IF TooShort(t)
                   THEN [seen |-> seen2, listings |-> listings]
                   ELSE LET scored == ScoredText[t]
                        IN  IF NoMatch(scored.score)
                              THEN [seen |-> seen2, listings |-> listings]
                              ELSE [seen |-> seen2,
                                    listings |->
                                      Append(listings, ListingOf(hit, obj_id, t, scored))]

----------------------------------------------------------------------------
(* Ranking and truncation *)

\* list.sort(key=score, reverse=True) keeps equal scores in their order:
\* each element goes after every element whose score is not smaller
RECURSIVE InsertDesc(_, _)
InsertDesc(sorted, x) ==
  IF sorted = << >> THEN << x >>
  ELSE IF Head(sorted).score >= x.score
    THEN << Head(sorted) >> \o InsertDesc(Tail(sorted), x)
    ELSE << x >> \o sorted

RECURSIVE InsertAsc(_, _)
InsertAsc(sorted, x) ==
  IF sorted = << >> THEN << x >>
  ELSE IF Head(sorted).score <= x.score
    THEN << Head(sorted) >> \o InsertAsc(Tail(sorted), x)
    ELSE << x >> \o sorted

Reverse(s) == [i \in DOMAIN s |-> s[Len(s) + 1 - i]]

RECURSIVE SortAsc(_)
SortAsc(l) ==
  IF l = << >> THEN << >>
  ELSE InsertAsc(SortAsc(SubSeq(l, 1, Len(l) - 1)), l[Len(l)])

\* an ascending sort then reversed: equal scores come out in reverse order
SortByScoreDesc_reversed_ascending(l) == Reverse(SortAsc(l))

RECURSIVE SortByScoreDesc(_)
SortByScoreDesc(l) ==
  IF l = << >> THEN << >>
  ELSE InsertDesc(SortByScoreDesc(SubSeq(l, 1, Len(l) - 1)), l[Len(l)])

\* l[:n], a negative n counting from the end
SliceTo(l, n) ==
  LET stop == IF n < 0 THEN Max(0, Len(l) + n) ELSE Min(n, Len(l))
  IN  SubSeq(l, 1, stop)

----------------------------------------------------------------------------
(* Output *)

\* if not top_results: ... return
ReturnsEarly(results) == results = << >>

Saves_always(no_save) == TRUE

\* if not args.no_save
Saves(no_save) == ~no_save

OutFileName(day) == "results-" \o day \o ".json"

----------------------------------------------------------------------------
(* One run of main *)

Init ==
  /\ args \in [ keywords : { SubSeq(KEYWORDS, 1, n) : n \in 1..MaxKeywords },
                top : TopValues,
                no_save : BOOLEAN ]
  /\ pc = "fetch"
  /\ kw = 1
  /\ hits_left = 0
  /\ seen_ids = {}
  /\ all_listings = << >>
  /\ top_results = << >>
  /\ files = << >>
  /\ stdout = "none"
  /\ fetch_log = << >>
  /\ first_listing = << >>
  /\ repeated_ids = {}
  /\ dropped_ids = {}
  /\ skipped_good = {}
  /\ inserted = << >>
  /\ words = << >>
  /\ text = << >>
  /\ result = [score |-> 0, matched |-> << >>]

\* the hit would pass both filters on its own text
Qualifies(hit) ==
  LET t == CleanedText[RawOf(hit)]
  IN  ~TooShort(t) /\ ~NoMatch(ScoredText[t].score)

\* for keyword in args.keywords: hits = fetch_hn_jobs(keyword, limit=args.limit)
Fetch ==
  /\ pc = "fetch"
  /\ kw <= Len(args.keywords)
  /\ \E kind \in FetchKinds : \E n \in HitCounts :
       /\ hits_left' = fetch_hn_jobs([kind |-> kind, hits |-> n])
       /\ fetch_log' = Append(fetch_log, [keyword |-> args.keywords[kw],
                                           failed |-> kind \in FailureKinds])
  /\ pc' = "hits"
  /\ UNCHANGED << args, kw, seen_ids, all_listings, top_results, files, stdout,
                  first_listing, repeated_ids, dropped_ids, skipped_good, inserted >>
  /\ UNCHANGED scoreVars

\* for hit in hits: one pass of the loop body
ProcessHit ==
  /\ pc = "hits"
  /\ hits_left > 0
  /\ \E hit \in HitPool :
     LET obj_id == ObjIdOf(hit)
         met == obj_id \in DOMAIN first_listing \cup dropped_ids
         t == CleanedText[RawOf(hit)]
         r == LoopBody(hit, seen_ids, all_listings)
     IN  /\ seen_ids' = r.seen
         /\ all_listings' = r.listings
         /\ first_listing' =
              IF ~met /\ Qualifies(hit)
                THEN (obj_id :> ListingOf(hit, obj_id, t, ScoredText[t])) @@ first_listing
                ELSE first_listing
         /\ repeated_ids' = IF met THEN repeated_ids \cup {obj_id} ELSE repeated_ids
         /\ dropped_ids' = IF ~met /\ ~Qualifies(hit)
                             THEN dropped_ids \cup {obj_id} ELSE dropped_ids
         /\ skipped_good' = IF met /\ obj_id \in dropped_ids /\ Qualifies(hit)
                              THEN skipped_good \cup {obj_id} ELSE skipped_good
         /\ inserted' = IF Len(r.listings) > Len(all_listings)
                          THEN Append(inserted, obj_id) ELSE inserted
  /\ hits_left' = hits_left - 1
  /\ UNCHANGED << args, pc, kw, top_results, files, stdout, fetch_log >>
  /\ UNCHANGED scoreVars

\* the hits of this keyword are exhausted: on to the next keyword
NextKeyword ==
  /\ pc = "hits"
  /\ hits_left = 0
  /\ kw' = kw + 1
  /\ pc' = "fetch"
  /\ UNCHANGED << args, hits_left, seen_ids, all_listings, top_results, files, stdout,
                  fetch_log, first_listing, repeated_ids, dropped_ids, skipped_good,
                  inserted >>
  /\ UNCHANGED scoreVars

\* all_listings.sort(...); top_results = all_listings[:args.top]
Rank ==
  /\ pc = "fetch"
  /\ kw > Len(args.keywords)
  /\ all_listings' = SortByScoreDesc(all_listings)
  /\ top_results' = SliceTo(all_listings', args.top)
  /\ pc' = "output"
  /\ UNCHANGED << args, kw, hits_left, seen_ids, files, stdout, fetch_log, first_listing,
                  repeated_ids, dropped_ids, skipped_good, inserted >>
  /\ UNCHANGED scoreVars

\* nothing to report: the message, and return
ReportNoMatches ==
  /\ pc = "output"
  /\ ReturnsEarly(top_results)
  /\ stdout' = "no_matches"
  /\ pc' = "done"
  /\ UNCHANGED << args, kw, hits_left, seen_ids, all_listings, top_results, files,
                  fetch_log, first_listing, repeated_ids, dropped_ids, skipped_good,
                  inserted >>
  /\ UNCHANGED scoreVars

\* the table, then the file unless --no-save
ReportAndSave ==
  /\ pc = "output"
  /\ ~ReturnsEarly(top_results)
  /\ stdout' = "table"
  /\ IF Saves(args.no_save)
       THEN \E today \in Dates :
              files' = Append(files, [name |-> OutFileName(today),
                                      content |-> top_results,
                                      day |-> today])
       ELSE files' = files
  /\ pc' = "done"
  /\ UNCHANGED << args, kw, hits_left, seen_ids, all_listings, top_results,
                  fetch_log, first_listing, repeated_ids, dropped_ids, skipped_good,
                  inserted >>
  /\ UNCHANGED scoreVars

Next ==
  \/ Fetch
  \/ ProcessHit
  \/ NextKeyword
  \/ Rank
  \/ ReportNoMatches
  \/ ReportAndSave

Spec == Init /\ [][Next]_vars

\* main is one sequential thread and every request is bounded by its timeout:
\* a step that can be taken is taken
FairSpec == Spec /\ WF_vars(Next)

----------------------------------------------------------------------------
(* Properties of one run *)

Ranked == pc \in { "output", "done" }

CountOf(listings, id) == Cardinality({ i \in DOMAIN listings : listings[i].id = id })

NoSharedId(listings) ==
  \A i, j \in DOMAIN listings : i # j => listings[i].id # listings[j].id

(* C1: at every point of a run no two entries of all_listings share an
   identifier, and no two entries of top_results do. *)
UniqueIdentifiers == NoSharedId(all_listings) /\ NoSharedId(top_results)

\* an identifier met twice is in both lists, beside another one
UniqueIdentifiersWitness ==
  /\ pc = "done"
  /\ \E id \in repeated_ids : id \in IdsOf(all_listings) /\ id \in IdsOf(top_results)
  /\ Len(top_results) >= 2

(* C2 as stated: an identifier carried by two fetched listings has exactly one
   ScoredListing in the final output, the one built from the first of them. *)
DuplicateYieldsExactlyOne ==
  pc = "done" =>
    \A id \in repeated_ids :
      /\ CountOf(top_results, id) = 1
      /\ \A i \in DOMAIN top_results :
           top_results[i].id = id =>
             id \in DOMAIN first_listing /\ top_results[i] = first_listing[id]

(* C2 amended: an identifier carried by two fetched listings has at most one
   ScoredListing in the final output; when it has one, it is the one built
   from the first of them; it has none when the first of them was dropped by
   the length or the score filter. *)
DuplicateYieldsFirstOrNone ==
  Ranked =>
    \A id \in repeated_ids :
      /\ CountOf(top_results, id) <= 1
      /\ \A i \in DOMAIN top_results :
           top_results[i].id = id =>
             id \in DOMAIN first_listing /\ top_results[i] = first_listing[id]
      /\ id \in dropped_ids => CountOf(top_results, id) = 0

\* a run has ended with a repeated identifier reported, and another repeated
\* identifier absent because its first hit was dropped
DuplicateYieldsFirstOrNoneWitness ==
  /\ pc = "done"
  /\ \E id \in repeated_ids : id \in IdsOf(top_results)
  /\ \E id \in repeated_ids : id \in skipped_good /\ id \notin IdsOf(top_results)

PositionInserted(id) == CHOOSE k \in DOMAIN inserted : inserted[k] = id

(* C3: after ranking, the candidates are in descending order of score, and of
   two candidates with equal score the one inserted earlier comes first. *)
RankingStable ==
  Ranked =>
    /\ Len(all_listings) = Len(inserted)
    /\ IdsOf(all_listings) = Range(inserted)
    /\ \A i, j \in DOMAIN all_listings :
         i < j =>
           /\ all_listings[i].score >= all_listings[j].score
           /\ all_listings[i].score = all_listings[j].score =>
                PositionInserted(all_listings[i].id) < PositionInserted(all_listings[j].id)

\* three candidates were ranked, two of equal score, the sort having moved one
RankingStableWitness ==
  /\ Ranked
  /\ Len(all_listings) = 3
  /\ all_listings[1].score = all_listings[2].score
  /\ all_listings[2].score > all_listings[3].score
  /\ inserted[1] = all_listings[3].id

\* the first n of l, none when n is not positive
FirstN(l, n) == IF n <= 0 THEN << >> ELSE SubSeq(l, 1, Min(n, Len(l)))

(* C4: for every top-count N the command line accepts, the reported result is
   the first N candidates of the ranked list: min(N, number of candidates)
   entries, none of them scored below an unreported candidate. *)
TruncationFirstN ==
  Ranked =>
    /\ top_results = FirstN(all_listings, args.top)
    /\ \A i \in DOMAIN top_results : \A j \in DOMAIN all_listings :
         j > Len(top_results) => all_listings[j].score <= top_results[i].score

FetchedKeywords == [i \in DOMAIN fetch_log |-> fetch_log[i].keyword]

(* C5: each keyword is fetched exactly once, in list order; a failed fetch
   contributes no hit and changes neither seen_ids nor all_listings, exactly
   as an empty answer would; and the run goes on to fetch every remaining
   keyword before it ranks and reports, which it always reaches. *)
FetchFailureNonFatal ==
  /\ [](/\ Len(fetch_log) <= Len(args.keywords)
        /\ FetchedKeywords = SubSeq(args.keywords, 1, Len(fetch_log))
        /\ Ranked => Len(fetch_log) = Len(args.keywords))
  /\ [][ (fetch_log' # fetch_log /\ fetch_log'[Len(fetch_log')].failed) =>
           /\ Len(fetch_log') = Len(fetch_log) + 1
           /\ hits_left' = 0
           /\ pc' = "hits"
           /\ kw' = kw
           /\ UNCHANGED << seen_ids, all_listings, top_results, files, stdout >> ]_vars
  /\ <>(pc = "done" /\ stdout # "none")

\* a run has ended whose first fetch failed and whose later fetch gave a listing
FetchFailureWitness ==
  /\ pc = "done"
  /\ Len(fetch_log) >= 2
  /\ fetch_log[1].failed
  /\ ~fetch_log[2].failed
  /\ top_results # << >>

(* C6 as stated: a run without --no-save writes exactly one file named by the
   date, whatever was fetched; a run with --no-save writes none. *)
SavesUnlessSuppressed ==
  pc = "done" =>
    IF args.no_save THEN files = << >>
    ELSE Len(files) = 1 /\ files[1].name = OutFileName(files[1].day)

(* C6 amended: a run without --no-save whose top_results is not empty writes
   exactly one file named by the date, holding top_results; a run with
   --no-save, or with empty top_results, writes none. *)
SavesWhenResultsAndNotSuppressed ==
  /\ pc # "done" => files = << >>
  /\ pc = "done" =>
       IF args.no_save \/ top_results = << >> THEN files = << >>
       ELSE /\ Len(files) = 1
            /\ files[1].name = OutFileName(files[1].day)
            /\ files[1].content = top_results

\* a run without --no-save has ended with its file written
SavesWitness ==
  /\ pc = "done"
  /\ ~args.no_save
  /\ Len(files) = 1
  /\ stdout = "table"

(* C9 as stated: every reported ScoredListing has a score above 0, and a
   listing whose text matches no skill phrase is never reported. *)
NoSkillNeverReported ==
  \A i \in DOMAIN all_listings :
    all_listings[i].score > 0 /\ all_listings[i].matched_skills # << >>

(* C9 amended: every kept ScoredListing has a score above 0; a listing whose
   text matches no skill phrase is kept only when the senior and remote
   bonuses alone make its score positive. *)
OnlyPositiveScoresReported ==
  /\ \A i \in DOMAIN all_listings :
       /\ all_listings[i].score > 0
       /\ all_listings[i].matched_skills = << >> =>
            all_listings[i].score <= SENIOR_BONUS + REMOTE_BONUS
  /\ \A i \in DOMAIN top_results : top_results[i].score > 0

\* a run reported a listing without any skill, and dropped another hit
OnlyPositiveScoresWitness ==
  /\ pc = "done"
  /\ \E i \in DOMAIN top_results : top_results[i].matched_skills = << >>
  /\ dropped_ids # {}

(* C10: an identifier enters seen_ids when its first hit is met, before the
   filters: seen_ids holds every identifier met, kept or dropped, and an
   identifier whose first hit was dropped never enters all_listings. *)
SeenBeforeFilters ==
  /\ seen_ids = DOMAIN first_listing \cup dropped_ids
  /\ IdsOf(all_listings) \subseteq seen_ids
  /\ dropped_ids \cap IdsOf(all_listings) = {}

\* hits without identifier: the first was dropped, a later one with a
\* qualifying text was skipped
SeenBeforeFiltersWitness ==
  /\ "" \in dropped_ids
  /\ "" \in skipped_good
  /\ "" \notin IdsOf(all_listings)

----------------------------------------------------------------------------
(* The scoring harness: score_listing applied to texts made of words *)

Vocabulary ==
  { <<"p","y","t","h","o","n">>,
    <<"S","Q","L">>,
    <<"s","e","n","i","o","r">>,
    <<"i","n","t","e","r","n">>,
    <<"r","e","m","o","t","e">>,
    <<"r","e","m","o","t","e","l","y">>,
    <<"r","e","s","t">>,
    <<"a","p","i">>,
    <<"l","e","a","d","i","n","g">>,
    <<"p","y","t","h","o","n","i","c">> }

\* " ".join(ws)
RECURSIVE Join(_)
Join(ws) ==
  IF ws = << >> THEN << >>
  ELSE IF Len(ws) = 1 THEN ws[1]
  ELSE ws[1] \o << " " >> \o Join(Tail(ws))

WordLists == UNION { [1..n -> Vocabulary] : n \in 0..MaxWords }

InitScore ==
  /\ pc = "text"
  /\ words \in WordLists
  /\ text = Join(words)
  /\ result = [score |-> 0, matched |-> << >>]
  /\ args = [keywords |-> KEYWORDS, top |-> DEFAULT_TOP, no_save |-> FALSE]
  /\ kw = 1
  /\ hits_left = 0
  /\ seen_ids = {}
  /\ all_listings = << >>
  /\ top_results = << >>
  /\ files = << >>
  /\ stdout = "none"
  /\ fetch_log = << >>
  /\ first_listing = << >>
  /\ repeated_ids = {}
  /\ dropped_ids = {}
  /\ skipped_good = {}
  /\ inserted = << >>

CallScoreListing ==
  /\ pc = "text"
  /\ result' = score_listing(text)
  /\ pc' = "scored"
  /\ UNCHANGED << words, text >>
  /\ UNCHANGED runVars

NextScore == CallScoreListing

SpecScore == InitScore /\ [][NextScore]_vars

----------------------------------------------------------------------------
(* Word-level reading of a text made of vocabulary words: lw is the sequence
   of its words, lower-cased *)

LowerWords == [i \in DOMAIN words |-> Lower(words[i])]

\* some word of the text has one of the markers inside it
MarkerInSomeWord(lw, markers) ==
  \E i \in DOMAIN lw : \E k \in DOMAIN markers : Contains(lw[i], markers[k])

\* the phrase is a run of whole words of the text
PhraseOfWords(lw, phrase) ==
  \E i \in DOMAIN lw : \E j \in i..Len(lw) : Join(SubSeq(lw, i, j)) = phrase

SkillsOfWords(lw) == SelectSeq(IAN_SKILLS, LAMBDA skill : PhraseOfWords(lw, skill))

Indicator(b) == IF b THEN 1 ELSE 0

FormulaScore(lw, remote) ==
  Max(0, SKILL_POINTS * Len(SkillsOfWords(lw))
         + SENIOR_BONUS * Indicator(MarkerInSomeWord(lw, SENIOR_MARKERS))
         - JUNIOR_PENALTY * Indicator(MarkerInSomeWord(lw, JUNIOR_MARKERS))
         + REMOTE_BONUS * Indicator(remote))

(* C7: score_listing returns max(0, 10 * matched skills + 5 * [senior marker
   present] - 10 * [junior marker present] + 5 * [remote present]), the
   adjustments being independent, and the score is never negative. *)
ScoreFormulaAndClamp ==
  pc = "scored" =>
    LET lw == LowerWords
    IN  /\ result.matched = SkillsOfWords(lw)
        /\ result.score = FormulaScore(lw, MarkerInSomeWord(lw, << REMOTE_MARKER >>))
        /\ result.score >= 0

\* a text with a senior and a junior marker has been scored, and one with
\* only a junior marker has been scored to 0
ScoreFormulaWitness ==
  /\ pc = "scored"
  /\ MarkerInSomeWord(LowerWords, SENIOR_MARKERS)
  /\ MarkerInSomeWord(LowerWords, JUNIOR_MARKERS)
  /\ Len(result.matched) = 1
  /\ result.score = SKILL_POINTS + SENIOR_BONUS - JUNIOR_PENALTY

(* C8: score_listing adds the remote bonus exactly when "remote" is a whole
   word of the text, and nothing when it is only part of a longer word. *)
RemoteBonusWholeWord ==
  pc = "scored" =>
    LET lw == LowerWords
    IN  result.score = FormulaScore(lw, \E i \in DOMAIN lw : lw[i] = REMOTE_MARKER)

====
